---- MODULE Spec2Model ----
(***************************************************************************)
(* A model of src/etl/etl_merge.py: the value coercers (coerce_money,      *)
(* coerce_date, standardize_email) and apply_mapping, the mapping-driven   *)
(* merge of CRM leads and sales orders into one customers table.           *)
(*                                                                         *)
(* Text is a sequence of one-character strings, so that strip(), lower(),  *)
(* the '@' test, the currency regex and float() are computed character by  *)
(* character.  A cell of a row (after fillna('')) is such a text, '' being *)
(* <<>>.  A stored value is a tagged record, see None/Str/Num/Date below.  *)
(***************************************************************************)
EXTENDS Integers, Sequences, FiniteSets, TLC

VARIABLES crm, sales, mapping, pc, i, crm_by_lead, crm_by_email,
          records, origin, linked, df, x, once, twice

vars == <<crm, sales, mapping, pc, i, crm_by_lead, crm_by_email,
          records, origin, linked, df, x, once, twice>>

(***************************************************************************)
(* Values                                                                  *)
(***************************************************************************)

\* Python None
None == [t |-> "none", s |-> <<>>, m |-> 0, e |-> 0]

\* float('nan'), what a missing cell of a numeric column is
NaN == [t |-> "nan", s |-> <<>>, m |-> 0, e |-> 0]

\* pd.NaT
NaT == [t |-> "nat", s |-> <<>>, m |-> 0, e |-> 0]

\* a str
Str(s) == [t |-> "str", s |-> s, m |-> 0, e |-> 0]

\* a float, the decimal m / 10^e, with e minimal (m not a multiple of 10 unless e = 0)
Num(m, e) == [t |-> "num", s |-> <<>>, m |-> m, e |-> e]

\* a UTC Timestamp, named by its ISO date
Date(s) == [t |-> "date", s |-> s, m |-> 0, e |-> 0]

\* pd.isna(x)
isna(v) == v.t \in {"none", "nan", "nat"}

(***************************************************************************)
(* Text                                                                    *)
(***************************************************************************)

Digits == <<"0", "1", "2", "3", "4", "5", "6", "7", "8", "9">>

IsDigit(c) == \E k \in 1..10 : Digits[k] = c

DigitVal(c) == (CHOOSE k \in 1..10 : Digits[k] = c) - 1

UpperChars == <<"A", "B", "C", "D", "E", "F", "G", "H", "I", "J", "K", "L", "M",
                "N", "O", "P", "Q", "R", "S", "T", "U", "V", "W", "X", "Y", "Z">>

LowerChars == <<"a", "b", "c", "d", "e", "f", "g", "h", "i", "j", "k", "l", "m",
                "n", "o", "p", "q", "r", "s", "t", "u", "v", "w", "x", "y", "z">>

LowerCh(c) ==
    IF \E k \in 1..26 : UpperChars[k] = c
    THEN LowerChars[CHOOSE k \in 1..26 : UpperChars[k] = c]
    ELSE c

\* str.lower()
Lower(s) == [k \in 1..Len(s) |-> LowerCh(s[k])]

IsSpace(c) == c = " "

RECURSIVE LStrip(_)
LStrip(s) == IF s # <<>> /\ IsSpace(Head(s)) THEN LStrip(Tail(s)) ELSE s

RECURSIVE RStrip(_)
RStrip(s) ==
    IF s # <<>> /\ IsSpace(s[Len(s)]) THEN RStrip(SubSeq(s, 1, Len(s) - 1)) ELSE s

\* str.strip()
Strip(s) == RStrip(LStrip(s))

\* '@' in s
HasAt(s) == \E k \in 1..Len(s) : s[k] = "@"

(***************************************************************************)
(* coerce_money                                                            *)
(***************************************************************************)

\* CURRENCY_RE = [^0-9.\-] : the characters the regex leaves in place
MoneyChar(c) == IsDigit(c) \/ c = "." \/ c = "-"

\* CURRENCY_RE.sub('', s)
CurrencySub(s) == SelectSeq(s, MoneyChar)

RECURSIVE ParseNat(_)
ParseNat(ds) ==
    IF ds = <<>> THEN 0
    ELSE 10 * ParseNat(SubSeq(ds, 1, Len(ds) - 1)) + DigitVal(ds[Len(ds)])

RECURSIVE DropZeros(_)
DropZeros(ds) ==
    IF ds # <<>> /\ ds[Len(ds)] = "0" THEN DropZeros(SubSeq(ds, 1, Len(ds) - 1)) ELSE ds

AllDigits(ds) == \A k \in 1..Len(ds) : IsDigit(ds[k])

Body(s) == IF s # <<>> /\ s[1] = "-" THEN Tail(s) ELSE s

DotAt(b) == IF \E k \in 1..Len(b) : b[k] = "." THEN CHOOSE k \in 1..Len(b) : b[k] = "." ELSE 0

IntPart(b) == IF DotAt(b) = 0 THEN b ELSE SubSeq(b, 1, DotAt(b) - 1)

FracPart(b) == IF DotAt(b) = 0 THEN <<>> ELSE SubSeq(b, DotAt(b) + 1, Len(b))

\* float(s) succeeds, for s made of digits, '.' and '-' only:  -?(D+(.D*)? | .D+)
FloatOk(s) ==
    /\ AllDigits(IntPart(Body(s)))
    /\ AllDigits(FracPart(Body(s)))
    /\ Len(IntPart(Body(s))) + Len(FracPart(Body(s))) > 0

\* float(s), when FloatOk(s)
FloatOf(s) ==
    LET f   == DropZeros(FracPart(Body(s)))
        mag == ParseNat(IntPart(Body(s)) \o f)
    IN  Num(IF s[1] = "-" THEN 0 - mag ELSE mag, Len(f))

RECURSIVE NatDigits(_)
NatDigits(n) == IF n < 10 THEN <<Digits[n + 1]>> ELSE Append(NatDigits(n \div 10), Digits[(n % 10) + 1])

RECURSIVE PadLeft(_, _)
PadLeft(ds, n) == IF Len(ds) >= n THEN ds ELSE PadLeft(<<"0">> \o ds, n)

\* str(x) of a float: repr in positional notation, at least one fractional digit
StrOfNum(v) ==
    LET mag == IF v.m < 0 THEN 0 - v.m ELSE v.m
        ds  == PadLeft(NatDigits(mag), v.e + 1)
        ip  == SubSeq(ds, 1, Len(ds) - v.e)
        fp  == IF v.e = 0 THEN <<"0">> ELSE SubSeq(ds, Len(ds) - v.e + 1, Len(ds))
    IN  (IF v.m < 0 THEN <<"-">> ELSE <<>>) \o ip \o <<".">> \o fp

\* str(x)
StrOf(v) ==
    CASE v.t = "str"  -> v.s
      [] v.t = "date" -> v.s
      [] v.t = "num"  -> StrOfNum(v)
      [] v.t = "nan"  -> <<"n", "a", "n">>
      [] v.t = "nat"  -> <<"N", "a", "T">>
      [] OTHER        -> <<"N", "o", "n", "e">>

\* a coerce_money whose numeric branch is gone and whose regex also drops the '.'
coerce_money_nodot(v) ==
    IF isna(v) THEN None
    ELSE LET s == SelectSeq(StrOf(v), LAMBDA c : IsDigit(c) \/ c = "-")
         IN  IF FloatOk(s) THEN FloatOf(s) ELSE None

coerce_money(v) ==
    IF isna(v) THEN None
    ELSE IF v.t = "num" THEN v
    ELSE LET s == CurrencySub(StrOf(v))
         IN  IF FloatOk(s) THEN FloatOf(s) ELSE None

(***************************************************************************)
(* standardize_email                                                       *)
(***************************************************************************)

standardize_email(v) ==
    IF isna(v) THEN None
    ELSE LET s == Lower(Strip(StrOf(v)))
         IN  IF HasAt(s) THEN Str(s) ELSE None

(***************************************************************************)
(* coerce_date                                                             *)
(***************************************************************************)

\* The text is an ISO calendar date, DDDD-DD-DD.  pd.to_datetime accepts more
\* (it is a permissive parser); the rows below hold no other text it accepts.
IsoDate(s) ==
    /\ Len(s) = 10
    /\ s[5] = "-" /\ s[8] = "-"
    /\ \A k \in {1, 2, 3, 4, 6, 7, 9, 10} : IsDigit(s[k])

Epoch == <<"1", "9", "7", "0", "-", "0", "1", "-", "0", "1">>

\* pd.to_datetime(x, utc=True, errors='coerce') of one value
to_datetime(v) ==
    CASE v.t = "date" -> v
      [] v.t = "str"  -> IF IsoDate(v.s) THEN Date(v.s) ELSE NaT
      [] v.t = "num"  -> Date(Epoch)
      [] OTHER        -> NaT

coerce_date(v) == IF isna(v) THEN NaT ELSE to_datetime(v)

(***************************************************************************)
(* Rows and dictionaries                                                   *)
(***************************************************************************)

\* src in row
Has(row, c) == c \in DOMAIN row

\* row.get(c): the cell, '' standing for None as well (the code tests both alike)
Get(row, c) == IF Has(row, c) THEN row[c] ELSE <<>>

\* {}
EmptyDict == <<>>

\* d[k] = v
Put(d, k, v) == [q \in (DOMAIN d) \cup {k} |-> IF q = k THEN v ELSE d[q]]

\* d.get(k): <<>> is None, <<row>> a row
DictGet(d, k) == IF k \in DOMAIN d THEN <<d[k]>> ELSE <<>>

Front(seq) == SubSeq(seq, 1, Len(seq) - 1)

Last(seq) == seq[Len(seq)]

(***************************************************************************)
(* apply_mapping: the two indices                                          *)
(***************************************************************************)

\* an index that keeps the first row of a key instead of the last
RECURSIVE IndexByLeadFirstWins(_)
IndexByLeadFirstWins(rows) ==
    IF rows = <<>> THEN EmptyDict
    ELSE LET d   == IndexByLeadFirstWins(Front(rows))
             row == Last(rows)
         IN  IF Has(row, "lead_id") /\ Get(row, "lead_id") # <<>>
                /\ Strip(Get(row, "lead_id")) \notin DOMAIN d
             THEN Put(d, Strip(Get(row, "lead_id")), row)
             ELSE d

RECURSIVE IndexByLead(_)
IndexByLead(rows) ==
    IF rows = <<>> THEN EmptyDict
    ELSE LET d   == IndexByLead(Front(rows))
             row == Last(rows)
         IN  IF Has(row, "lead_id") /\ Get(row, "lead_id") # <<>>
             THEN Put(d, Strip(Get(row, "lead_id")), row)
             ELSE d

RECURSIVE IndexByEmail(_)
IndexByEmail(rows) ==
    IF rows = <<>> THEN EmptyDict
    ELSE LET d   == IndexByEmail(Front(rows))
             row == Last(rows)
         IN  IF Has(row, "email") /\ HasAt(Get(row, "email"))
             THEN Put(d, Lower(Strip(Get(row, "email"))), row)
             ELSE d

(***************************************************************************)
(* apply_mapping: linkage of one sales row                                 *)
(***************************************************************************)

\* s.get('customer_email') or s.get('contact_email') or ''
ContactEmail(s) ==
    IF Get(s, "customer_email") # <<>> THEN Get(s, "customer_email")
    ELSE Get(s, "contact_email")

\* a linkage that tries the email before the identifier
LinkEmailFirst(s, by_lead, by_email) ==
    LET lead_ref == Get(s, "lead_ref")
        email    == ContactEmail(s)
    IN  IF email # <<>> /\ HasAt(email) /\ Lower(Strip(email)) \in DOMAIN by_email
        THEN [matched |-> DictGet(by_email, Lower(Strip(email))), via |-> "email"]
        ELSE IF lead_ref # <<>> /\ Strip(lead_ref) \in DOMAIN by_lead
        THEN [matched |-> <<by_lead[Strip(lead_ref)]>>, via |-> "lead"]
        ELSE [matched |-> <<>>, via |-> "none"]

\* a linkage whose email lookup forgets lower()
LinkNoLower(s, by_lead, by_email) ==
    LET lead_ref == Get(s, "lead_ref")
        email    == ContactEmail(s)
    IN  IF lead_ref # <<>> /\ Strip(lead_ref) \in DOMAIN by_lead
        THEN [matched |-> <<by_lead[Strip(lead_ref)]>>, via |-> "lead"]
        ELSE IF email # <<>> /\ HasAt(email)
        THEN [matched |-> DictGet(by_email, Strip(email)), via |-> "email"]
        ELSE [matched |-> <<>>, via |-> "none"]

\* matched, and the branch that set it: "lead" (line 87), "email" (line 91, the
\* only read of crm_by_email) or "none"
Link(s, by_lead, by_email) ==
    LET lead_ref == Get(s, "lead_ref")
        email    == ContactEmail(s)
    IN  IF lead_ref # <<>> /\ Strip(lead_ref) \in DOMAIN by_lead
        THEN [matched |-> <<by_lead[Strip(lead_ref)]>>, via |-> "lead"]
        ELSE IF email # <<>> /\ HasAt(email)
        THEN [matched |-> DictGet(by_email, Lower(Strip(email))), via |-> "email"]
        ELSE [matched |-> <<>>, via |-> "none"]

(***************************************************************************)
(* apply_mapping: field resolution                                         *)
(***************************************************************************)

\* a coercion that strips untyped text too
CoerceStripAll(type, raw) ==
    CASE type = "float"  -> coerce_money(Str(raw))
      [] type = "date"   -> coerce_date(Str(raw))
      [] OTHER           -> Str(Strip(raw))

\* the coercion of a selected raw value by cfg['type']
Coerce(type, raw) ==
    CASE type = "float"  -> coerce_money(Str(raw))
      [] type = "date"   -> coerce_date(Str(raw))
      [] type = "string" -> Str(Strip(raw))
      [] OTHER           -> Str(raw)

\* a source priority that reads the sales row before the matched CRM row
SrcValSalesFirst(matched, s, src) ==
    IF Has(s, src) /\ s[src] # <<>> THEN s[src]
    ELSE IF matched # <<>> /\ Has(matched[1], src) /\ matched[1][src] # <<>>
    THEN matched[1][src]
    ELSE <<>>

\* src_val of one candidate in the sales pass; <<>> is None or ''
SrcVal(matched, s, src) ==
    IF matched # <<>> /\ Has(matched[1], src) /\ matched[1][src] # <<>>
    THEN matched[1][src]
    ELSE IF Has(s, src) /\ s[src] # <<>> THEN s[src]
    ELSE <<>>

\* a resolution that keeps the last non-empty candidate, not the first
RECURSIVE FieldSalesLastWins(_, _, _)
FieldSalesLastWins(matched, s, cfg) ==
    IF cfg.source = <<>> THEN None
    ELSE LET v == SrcVal(matched, s, Last(cfg.source))
         IN  IF v # <<>> THEN Coerce(cfg.type, v)
             ELSE FieldSalesLastWins(matched, s, [cfg EXCEPT !.source = Front(@)])

\* value_found of one output field in the sales pass
RECURSIVE FieldSales(_, _, _)
FieldSales(matched, s, cfg) ==
    IF cfg.source = <<>> THEN None
    ELSE LET v == SrcVal(matched, s, Head(cfg.source))
         IN  IF v # <<>> THEN Coerce(cfg.type, v)
             ELSE FieldSales(matched, s, [cfg EXCEPT !.source = Tail(@)])

\* value_found of one output field in the CRM-only pass
RECURSIVE FieldCrm(_, _)
FieldCrm(c, cfg) ==
    IF cfg.source = <<>> THEN None
    ELSE IF Has(c, Head(cfg.source)) /\ c[Head(cfg.source)] # <<>>
    THEN Coerce(cfg.type, c[Head(cfg.source)])
    ELSE FieldCrm(c, [cfg EXCEPT !.source = Tail(@)])

\* rec of the sales pass
SalesRec(matched, s, map) == [f \in DOMAIN map |-> FieldSales(matched, s, map[f])]

\* rec of the CRM-only pass
CrmRec(c, map) == [f \in DOMAIN map |-> FieldCrm(c, map[f])]

\* bool(v) of a stored value
Truthy(v) ==
    CASE v.t = "str" -> v.s # <<>>
      [] v.t = "num" -> v.m # 0
      [] v.t = "date" -> TRUE
      [] v.t = "nan" -> TRUE
      [] OTHER -> FALSE

\* the test of lines 126-127: this CRM row's email is already in records
Skips(c, recs) ==
    LET crm_email == standardize_email(Str(Get(c, "email")))
    IN  /\ Truthy(crm_email)
        /\ \E k \in 1..Len(recs) :
              /\ "email" \in DOMAIN recs[k]
              /\ Truthy(recs[k]["email"])
              /\ recs[k]["email"] = crm_email

(***************************************************************************)
(* apply_mapping: post-processing of the frame                             *)
(***************************************************************************)

\* df.columns
Columns(recs) == IF recs = <<>> THEN {} ELSE DOMAIN recs[1]

\* line 151
PostEmail(r) == IF "email" \in DOMAIN r THEN [r EXCEPT !["email"] = standardize_email(@)] ELSE r

\* line 154
PostMoney(r) ==
    IF "lifetime_value" \in DOMAIN r THEN [r EXCEPT !["lifetime_value"] = coerce_money(@)] ELSE r

\* line 158
PostDate(r) ==
    IF "signup_date" \in DOMAIN r THEN [r EXCEPT !["signup_date"] = to_datetime(@)] ELSE r

\* the lambda of line 162
IdTrim(v) == IF v = None \/ v = Str(<<>>) THEN None ELSE Str(Strip(StrOf(v)))

\* the lambda of line 164: e or None
OrNone(v) == IF Truthy(v) THEN v ELSE None

\* lines 162-164, for a frame that has an email column
PostId(r) ==
    IF "id" \in DOMAIN r
    THEN LET id == IdTrim(r["id"])
         IN  [r EXCEPT !["id"] = IF isna(id) THEN OrNone(r["email"]) ELSE id]
    ELSE r

\* line 164 reads df['email']: a frame with an id column and no email column
\* raises KeyError
RaisesKeyError(recs) == "id" \in Columns(recs) /\ "email" \notin Columns(recs)

\* lines 147-166, when nothing is raised
PostFrame(recs) == [k \in 1..Len(recs) |-> PostId(PostDate(PostMoney(PostEmail(recs[k]))))]

(***************************************************************************)
(* Inputs                                                                  *)
(***************************************************************************)

\* the most rows the two tables hold together
MaxRows == 3

\* the longest text handed to a coercer
MaxLen == 3

T_L1 == <<"L", "1">>

T_L1lead == <<" ", "L", "1">>

T_L1trail == <<"L", "1", " ">>

T_xy == <<"x", "@", "y">>

T_XYtrail == <<"X", "@", "Y", " ">>

T_Xylead == <<" ", "X", "@", "y">>

T_no == <<"n", "o">>

T_Al == <<" ", "A", "l", " ">>

T_Bo == <<"B", "o">>

T_day == <<"2", "0", "2", "0", "-", "0", "1", "-", "0", "2">>

T_usd == <<"$", "2", ".", "5", "0">>

\* crm_leads rows whose identifiers and emails collide after strip()/lower()
LinkCrmRows ==
    [lead_id : {<<>>, T_L1, T_L1lead}, email : {<<>>, T_xy, T_XYtrail, T_no}]

\* sales_orders rows that reference them by identifier, by email, or not at all
LinkSalesRows ==
    [lead_ref : {<<>>, T_L1trail}, customer_email : {<<>>, T_no, T_Xylead},
     contact_email : {<<>>, T_xy}]

\* a mappings.yml with an email and an id column
LinkMappings ==
    { [email |-> [source |-> <<"email", "customer_email">>, type |-> "string"],
       id    |-> [source |-> <<"lead_id", "lead_ref">>, type |-> "string"]] }

\* crm_leads rows with a name and a signup date
ResolveCrmRows == [lead_id : {T_L1}, name : {<<>>, T_Al}, signup : {<<>>, T_day}]

\* sales_orders rows with a name and an amount
ResolveSalesRows ==
    [lead_ref : {<<>>, T_L1}, name : {<<>>, T_Bo}, amount : {<<>>, T_usd}]

\* the candidate lists of one output field
ResolveSources ==
    { <<"name", "signup">>, <<"signup", "name">>, <<"amount", "name">>,
      <<"name", "amount">>, <<"signup", "amount">> }

\* the declared type of each output field; "raw" is no declared type
TypeOf(f) ==
    CASE f = "lifetime_value" -> "float"
      [] f = "signup_date"    -> "date"
      [] f = "id"             -> "string"
      [] OTHER                -> "raw"

\* the output fields of one mappings.yml
ResolveTargets ==
    { {"lifetime_value", "signup_date", "note"}, {"lifetime_value", "id"}, {"id"} }

\* mappings.yml, every output field with the same candidate list
ResolveMappings ==
    { [f \in T |-> [source |-> src, type |-> TypeOf(f)]] :
        T \in ResolveTargets, src \in ResolveSources }

CoerceChars == {" ", "A", "b", "@", "0", "1", ".", "-", "$"}

\* what a coercer is handed: None, nan, a float or a text
CoerceInputs ==
    {None, NaN, Num(0, 0), Num(12, 0), Num(125, 1), Num(0 - 5, 2)}
        \cup { Str(s) : s \in UNION { [1..k -> CoerceChars] : k \in 0..MaxLen } }

(***************************************************************************)
(* apply_mapping as a state machine: one step per loop iteration           *)
(***************************************************************************)

NoCoerce == [money |-> None, email |-> None]

\* the state on entry to apply_mapping(df_list, mapping)
Entry(crmRows, salesRows, maps) ==
    /\ \E a \in 0..MaxRows : \E b \in 0..(MaxRows - a) :
          /\ crm \in [1..a -> crmRows]
          /\ sales \in [1..b -> salesRows]
    /\ mapping \in maps
    /\ pc = "index"
    /\ i = 1
    /\ crm_by_lead = EmptyDict
    /\ crm_by_email = EmptyDict
    /\ records = <<>>
    /\ origin = <<>>
    /\ linked = <<>>
    /\ df = <<>>
    /\ x = None
    /\ once = NoCoerce
    /\ twice = NoCoerce

\* tables that exercise linkage and deduplication, or tables that exercise field
\* resolution and coercion
Init ==
    \/ Entry(LinkCrmRows, LinkSalesRows, LinkMappings)
    \/ Entry(ResolveCrmRows, ResolveSalesRows, ResolveMappings)

\* lines 65-78
BuildIndex ==
    /\ pc = "index"
    /\ crm_by_lead' = IndexByLead(crm)
    /\ crm_by_email' = IndexByEmail(crm)
    /\ pc' = "sales"
    /\ UNCHANGED <<crm, sales, mapping, i, records, origin, linked, df, x, once, twice>>

\* lines 83-121, one sales row
SalesRow ==
    /\ pc = "sales"
    /\ i <= Len(sales)
    /\ LET l == Link(sales[i], crm_by_lead, crm_by_email)
       IN  /\ linked' = Append(linked, l)
           /\ records' = Append(records, SalesRec(l.matched, sales[i], mapping))
    /\ origin' = Append(origin, [pass |-> "sales", row |-> sales[i]])
    /\ i' = i + 1
    /\ UNCHANGED <<crm, sales, mapping, pc, crm_by_lead, crm_by_email, df, x, once, twice>>

\* the sales loop is exhausted
SalesEnd ==
    /\ pc = "sales"
    /\ i > Len(sales)
    /\ pc' = "crm"
    /\ i' = 1
    /\ UNCHANGED <<crm, sales, mapping, crm_by_lead, crm_by_email, records, origin, linked,
                   df, x, once, twice>>

\* lines 124-128, a CRM row that is skipped
CrmSkip ==
    /\ pc = "crm"
    /\ i <= Len(crm)
    /\ Skips(crm[i], records)
    /\ i' = i + 1
    /\ UNCHANGED <<crm, sales, mapping, pc, crm_by_lead, crm_by_email, records, origin, linked,
                   df, x, once, twice>>

\* lines 124-145, a CRM row that is appended
CrmRow ==
    /\ pc = "crm"
    /\ i <= Len(crm)
    /\ ~Skips(crm[i], records)
    /\ records' = Append(records, CrmRec(crm[i], mapping))
    /\ origin' = Append(origin, [pass |-> "crm", row |-> crm[i]])
    /\ i' = i + 1
    /\ UNCHANGED <<crm, sales, mapping, pc, crm_by_lead, crm_by_email, linked,
                   df, x, once, twice>>

\* the CRM loop is exhausted
CrmEnd ==
    /\ pc = "crm"
    /\ i > Len(crm)
    /\ pc' = "post"
    /\ UNCHANGED <<crm, sales, mapping, i, crm_by_lead, crm_by_email, records, origin, linked,
                   df, x, once, twice>>

\* lines 147-166, returning the frame
PostProcess ==
    /\ pc = "post"
    /\ ~RaisesKeyError(records)
    /\ df' = PostFrame(records)
    /\ pc' = "done"
    /\ UNCHANGED <<crm, sales, mapping, i, crm_by_lead, crm_by_email, records, origin, linked,
                   x, once, twice>>

\* lines 147-164, raising KeyError at df.loc[..., 'email']
PostRaise ==
    /\ pc = "post"
    /\ RaisesKeyError(records)
    /\ pc' = "error"
    /\ UNCHANGED <<crm, sales, mapping, i, crm_by_lead, crm_by_email, records, origin, linked,
                   df, x, once, twice>>

Next ==
    \/ BuildIndex
    \/ SalesRow
    \/ SalesEnd
    \/ CrmSkip
    \/ CrmRow
    \/ CrmEnd
    \/ PostProcess
    \/ PostRaise

Spec == Init /\ [][Next]_vars

(***************************************************************************)
(* The coercers applied once and again                                     *)
(***************************************************************************)

InitCoerce ==
    /\ x \in CoerceInputs
    /\ pc = "raw"
    /\ once = NoCoerce
    /\ twice = NoCoerce
    /\ crm = <<>>
    /\ sales = <<>>
    /\ mapping = <<>>
    /\ i = 1
    /\ crm_by_lead = EmptyDict
    /\ crm_by_email = EmptyDict
    /\ records = <<>>
    /\ origin = <<>>
    /\ linked = <<>>
    /\ df = <<>>

\* coerce_money(x), standardize_email(x)
CoerceOnce ==
    /\ pc = "raw"
    /\ once' = [money |-> coerce_money(x), email |-> standardize_email(x)]
    /\ pc' = "once"
    /\ UNCHANGED <<crm, sales, mapping, i, crm_by_lead, crm_by_email, records, origin, linked,
                   df, x, twice>>

\* the same coercers applied to their own results, as lines 151 and 154 do
CoerceTwice ==
    /\ pc = "once"
    /\ twice' = [money |-> coerce_money(once.money), email |-> standardize_email(once.email)]
    /\ pc' = "twice"
    /\ UNCHANGED <<crm, sales, mapping, i, crm_by_lead, crm_by_email, records, origin, linked,
                   df, x, once>>

NextCoerce == CoerceOnce \/ CoerceTwice

SpecCoerce == InitCoerce /\ [][NextCoerce]_vars

(***************************************************************************)
(* Properties                                                              *)
(***************************************************************************)

\* normalize_email of a cell
Norm(cell) == standardize_email(Str(cell))

\* the CRM rows, by position, that carry the identifier key
LeadRows(key) ==
    { j \in 1..Len(crm) : Get(crm[j], "lead_id") # <<>> /\ Strip(Get(crm[j], "lead_id")) = key }

\* the CRM rows, by position, whose email is email-shaped and normalizes to key
EmailRows(key) ==
    { j \in 1..Len(crm) : HasAt(Get(crm[j], "email")) /\ Lower(Strip(Get(crm[j], "email"))) = key }

Max(S) == CHOOSE n \in S : \A q \in S : q <= n

\* sales row k has no identifier match
NoLeadMatch(k) ==
    \/ Get(sales[k], "lead_ref") = <<>>
    \/ LeadRows(Strip(Get(sales[k], "lead_ref"))) = {}

\* C1: a sales row whose non-empty lead_ref, trimmed, is the trimmed lead_id of a
\* CRM row is matched to the row the identifier index holds under that key, a CRM
\* row with that identifier, and the email index is not read for it, whatever the
\* emails on either side.
C1_IdentifierFirst ==
    \A k \in 1..Len(linked) :
        LET key == Strip(Get(sales[k], "lead_ref"))
        IN  (Get(sales[k], "lead_ref") # <<>> /\ LeadRows(key) # {}) =>
                /\ key \in DOMAIN crm_by_lead
                /\ linked[k].matched = <<crm_by_lead[key]>>
                /\ \E j \in LeadRows(key) : linked[k].matched = <<crm[j]>>
                /\ linked[k].via = "lead"

\* C1 witness: a sales row matched by identifier whose contact email is the key
\* of a different CRM row in the email index
C1_Witness ==
    \E k \in 1..Len(linked) :
        LET mail == Lower(Strip(ContactEmail(sales[k])))
        IN  /\ Get(sales[k], "lead_ref") # <<>>
            /\ LeadRows(Strip(Get(sales[k], "lead_ref"))) # {}
            /\ HasAt(mail)
            /\ mail \in DOMAIN crm_by_email
            /\ linked[k].matched # <<crm_by_email[mail]>>

ContactFields == {"customer_email", "contact_email"}

\* C2 as claimed: a sales row with no identifier match and an email-shaped
\* customer_email or contact_email that normalizes to the normalized email of a
\* CRM row is matched to a CRM row with that normalized email.
C2_AnyContactField ==
    \A k \in 1..Len(linked) : \A f \in ContactFields :
        LET mail == Get(sales[k], f)
        IN  (NoLeadMatch(k) /\ HasAt(mail) /\ EmailRows(Lower(Strip(mail))) # {}) =>
                \E j \in EmailRows(Lower(Strip(mail))) : linked[k].matched = <<crm[j]>>

\* C2 amended: the same for the first non-empty of customer_email, contact_email,
\* the only one the code looks at; the match is the entry of the email index, the
\* last CRM row with that normalized email.
C2_FirstContactField ==
    \A k \in 1..Len(linked) :
        LET mail == ContactEmail(sales[k])
            key  == Lower(Strip(mail))
        IN  (NoLeadMatch(k) /\ HasAt(mail) /\ EmailRows(key) # {}) =>
                /\ linked[k].via = "email"
                /\ linked[k].matched = <<crm[Max(EmailRows(key))]>>

\* C2 witness: a match made by email between two spellings of one address
C2_Witness ==
    \E k \in 1..Len(linked) :
        /\ NoLeadMatch(k)
        /\ linked[k].via = "email"
        /\ linked[k].matched # <<>>
        /\ Get(linked[k].matched[1], "email") # ContactEmail(sales[k])
        /\ Strip(ContactEmail(sales[k])) # Lower(Strip(ContactEmail(sales[k])))

\* C10: once built, the identifier index has a key exactly for the trimmed
\* non-empty lead_ids and the email index exactly for the trimmed lower-cased
\* email-shaped emails, each holding the last CRM row of its key, and a row is
\* entered in either index whatever its other key field is.
C10_LinkIndex ==
    pc # "index" =>
        /\ \A key \in DOMAIN crm_by_lead :
              LET rows == LeadRows(key)
              IN  rows # {} /\ crm_by_lead[key] = crm[Max(rows)]
        /\ \A key \in DOMAIN crm_by_email :
              LET rows == EmailRows(key)
              IN  rows # {} /\ crm_by_email[key] = crm[Max(rows)]
        /\ \A j \in 1..Len(crm) :
              /\ Get(crm[j], "lead_id") # <<>> => Strip(Get(crm[j], "lead_id")) \in DOMAIN crm_by_lead
              /\ HasAt(Get(crm[j], "email")) =>
                    Lower(Strip(Get(crm[j], "email"))) \in DOMAIN crm_by_email

\* C10 witness: two different rows under one identifier key, the later one not
\* in the email index, and a row in the email index that has no identifier
C10_Witness ==
    /\ pc = "sales"
    /\ \E j1, j2 \in 1..Len(crm) :
          /\ j1 < j2
          /\ crm[j1] # crm[j2]
          /\ Get(crm[j1], "lead_id") # Get(crm[j2], "lead_id")
          /\ j1 \in LeadRows(Strip(Get(crm[j2], "lead_id")))
          /\ j2 \in LeadRows(Strip(Get(crm[j2], "lead_id")))
          /\ ~HasAt(Get(crm[j2], "email"))
    /\ \E j \in 1..Len(crm) :
          Get(crm[j], "lead_id") = <<>> /\ HasAt(Get(crm[j], "email"))

\* C7: coerce_money and standardize_email give, applied to their own result,
\* that same result, missing included.
C7_Idempotent == pc = "twice" => twice = once

\* C7 witness: a text that is not yet canonical and that both coercers accept
C7_Witness ==
    /\ pc = "twice"
    /\ x.t = "str"
    /\ once.money.t = "num"
    /\ once.email.t = "str"
    /\ once.email.s # x.s

\* the rows record n was resolved from, in the order they are read: the matched
\* CRM row, if any, then the driving row
RowsOf(n) ==
    IF origin[n].pass = "sales" THEN linked[n].matched \o <<origin[n].row>>
    ELSE <<origin[n].row>>

NonEmptyAt(row, c) == Has(row, c) /\ row[c] # <<>>

\* the position in src of the first candidate that is non-empty in some of rows, or 0
FirstCand(rows, src) ==
    LET ok == { p \in 1..Len(src) : \E q \in 1..Len(rows) : NonEmptyAt(rows[q], src[p]) }
    IN  IF ok = {} THEN 0 ELSE CHOOSE p \in ok : \A p2 \in ok : p <= p2

\* the cell of candidate c in the first of rows where it is non-empty
RawOf(rows, c) ==
    LET ok == { q \in 1..Len(rows) : NonEmptyAt(rows[q], c) }
    IN  rows[CHOOSE q \in ok : \A q2 \in ok : q <= q2][c]

\* C4: when the two passes are over, every output field of every record of
\* either pass is missing when no candidate is non-empty in the rows being
\* resolved, and is otherwise the coerced value of the first candidate, in
\* declared order, that is non-empty there.
C4_FirstMatchWins ==
    pc = "post" => \A n \in 1..Len(records) : \A f \in DOMAIN mapping :
        LET src  == mapping[f].source
            rows == RowsOf(n)
            p    == FirstCand(rows, src)
        IN  IF p = 0 THEN records[n][f] = None
            ELSE \E q \in 1..Len(rows) :
                    /\ NonEmptyAt(rows[q], src[p])
                    /\ records[n][f] = Coerce(mapping[f].type, rows[q][src[p]])

\* C4 witness: records of both passes, among them one whose first candidate is
\* empty and whose second gives the value, one whose two candidates are both
\* non-empty in its driving row, and one with no non-empty candidate
C4_Witness ==
    /\ pc = "post"
    /\ \E n \in 1..Len(records) : origin[n].pass = "sales"
    /\ \E n \in 1..Len(records) : origin[n].pass = "crm"
    /\ \E n \in 1..Len(records) : \E f \in DOMAIN mapping :
          /\ FirstCand(RowsOf(n), mapping[f].source) = 2
          /\ ~isna(records[n][f])
    /\ \E n \in 1..Len(records) : \E f \in DOMAIN mapping :
          /\ Len(mapping[f].source) = 2
          /\ \A p \in 1..2 : NonEmptyAt(origin[n].row, mapping[f].source[p])
          /\ ~isna(records[n][f])
    /\ \E n \in 1..Len(records) : \E f \in DOMAIN mapping :
          FirstCand(RowsOf(n), mapping[f].source) = 0

\* the value the claim has stored for a selected raw text
StoredAs(type, raw, untypedTrimmed) ==
    CASE type = "float"  -> coerce_money(Str(raw))
      [] type = "date"   -> coerce_date(Str(raw))
      [] type = "string" -> Str(Strip(raw))
      [] OTHER           -> IF untypedTrimmed THEN Str(Strip(raw)) ELSE Str(raw)

\* what records holds, when the two passes are over, for every field with a
\* selected raw value
StoredRight(untypedTrimmed) ==
    pc = "post" => \A n \in 1..Len(records) : \A f \in DOMAIN mapping :
        LET src  == mapping[f].source
            rows == RowsOf(n)
            p    == FirstCand(rows, src)
        IN  p # 0 =>
              /\ records[n][f] = StoredAs(mapping[f].type, RawOf(rows, src[p]), untypedTrimmed)
              /\ mapping[f].type = "float" => records[n][f].t \in {"num", "none"}
              /\ mapping[f].type = "date" => records[n][f].t \in {"date", "nat"}

\* C6 as claimed: the stored value is the selected raw value coerced by the
\* declared type, an untyped field storing the raw text trimmed; a float or date
\* field holds a number, a date or missing.
C6_UntypedTrimmed == StoredRight(TRUE)

\* C6 amended: the same, an untyped field storing the raw text as it is, with
\* its surrounding whitespace.
C6_UntypedAsIs == StoredRight(FALSE)

\* C6 witness: records that hold a float made from currency text, a date, a
\* missing value left by a failed coercion, and untyped text with its whitespace
C6_Witness ==
    /\ pc = "post"
    /\ \E n \in 1..Len(records) : \E f \in DOMAIN mapping :
          /\ mapping[f].type = "float"
          /\ records[n][f].t = "num"
    /\ \E n \in 1..Len(records) : \E f \in DOMAIN mapping :
          /\ mapping[f].type \in {"float", "date"}
          /\ FirstCand(RowsOf(n), mapping[f].source) # 0
          /\ isna(records[n][f])
    /\ \E n \in 1..Len(records) : \E f \in DOMAIN mapping :
          /\ mapping[f].type = "raw"
          /\ records[n][f].t = "str"
          /\ Strip(records[n][f].s) # records[n][f].s

\* C8: of every record the sales pass has made, a field is the coerced cell of
\* the first candidate that is non-empty in the matched CRM row or in the sales
\* row, read from the CRM row when it is non-empty there and from the sales row
\* otherwise; for an unmatched sales row the sales row is the only row read.
C8_SourcePriority ==
    pc = "crm" /\ i = 1 => \A n \in 1..Len(records) : \A f \in DOMAIN mapping :
        origin[n].pass = "sales" =>
            LET src  == mapping[f].source
                rows == IF linked[n].matched # <<>>
                        THEN <<linked[n].matched[1], sales[n]>>
                        ELSE <<sales[n]>>
                p    == FirstCand(rows, src)
            IN  /\ origin[n].row = sales[n]
                /\ records[n][f] =
                      IF p = 0 THEN None
                      ELSE IF Len(rows) = 2 /\ NonEmptyAt(rows[1], src[p])
                      THEN Coerce(mapping[f].type, rows[1][src[p]])
                      ELSE Coerce(mapping[f].type, sales[n][src[p]])

\* C8 witness: a matched sales row and a candidate non-empty in both rows with
\* different cells, and an unmatched sales row beside a CRM row that has a cell
\* for a candidate the sales row lacks
C8_Witness ==
    /\ pc = "crm"
    /\ i = 1
    /\ \E n \in 1..Len(records) : \E f \in DOMAIN mapping :
          /\ origin[n].pass = "sales"
          /\ linked[n].matched # <<>>
          /\ NonEmptyAt(sales[n], Head(mapping[f].source))
          /\ NonEmptyAt(linked[n].matched[1], Head(mapping[f].source))
          /\ sales[n][Head(mapping[f].source)] # linked[n].matched[1][Head(mapping[f].source)]
    /\ \E n \in 1..Len(records) : \E f \in DOMAIN mapping :
          /\ origin[n].pass = "sales"
          /\ linked[n].matched = <<>>
          /\ records[n][f] = None
          /\ \E j \in 1..Len(crm) : NonEmptyAt(crm[j], Head(mapping[f].source))

\* sales row k carries the normalized email e in a contact field
Carries(k, e) == \E f \in ContactFields : Norm(Get(sales[k], f)) = e

\* C3 as claimed: with the email column read from the CRM email first, a CRM row
\* with an email-shaped email that no other CRM row has, matched by exactly one
\* sales row and carried by no other sales row, gives exactly one record of the
\* returned frame with that normalized email.
C3_Deduplicated ==
    (pc = "done" /\ "email" \in DOMAIN mapping /\ Head(mapping["email"].source) = "email") =>
        \A j \in 1..Len(crm) :
            LET e == Norm(Get(crm[j], "email"))
            IN  ( /\ e # None
                  /\ \A j2 \in 1..Len(crm) : j2 # j => Norm(Get(crm[j2], "email")) # e
                  /\ \E k \in 1..Len(sales) :
                        /\ linked[k].matched = <<crm[j]>>
                        /\ \A k2 \in 1..Len(sales) :
                              k2 # k => linked[k2].matched # <<crm[j]>> /\ ~Carries(k2, e) )
                => Cardinality({ n \in 1..Len(df) : df[n]["email"] = e }) = 1

\* the skip rule of the claim: the CRM row's normalized email is that of a record
\* of pass 1
ClaimSkips(c) ==
    /\ Norm(Get(c, "email")) # None
    /\ \E k \in 1..Len(sales) :
          /\ "email" \in DOMAIN records[k]
          /\ standardize_email(records[k]["email"]) = Norm(Get(c, "email"))

ClaimKeeps(c) == ~ClaimSkips(c)

\* C9 as claimed: after pass 2 the records that follow those of pass 1 are the
\* CRM rows that the skip rule keeps, in input order, each resolved from itself.
C9_SkipRule ==
    pc \in {"post", "done", "error"} =>
        LET kept == SelectSeq(crm, ClaimKeeps)
        IN  /\ Len(records) = Len(sales) + Len(kept)
            /\ \A n \in 1..Len(kept) :
                  /\ origin[Len(sales) + n] = [pass |-> "crm", row |-> kept[n]]
                  /\ records[Len(sales) + n] = CrmRec(kept[n], mapping)

\* the id the claim gives record n of the frame
ClaimId(n) ==
    LET rid  == records[n]["id"]
        mail == IF "email" \in DOMAIN records[n]
                THEN standardize_email(records[n]["email"]) ELSE None
    IN  IF ~isna(rid) /\ Strip(StrOf(rid)) # <<>> THEN Str(Strip(StrOf(rid)))
        ELSE mail

\* C5 as claimed: with an id column declared, apply_mapping raises nothing and
\* every record of the frame has the trimmed resolved id, else its normalized
\* email, else missing.
C5_CanonicalId ==
    "id" \in DOMAIN mapping =>
        /\ pc # "error"
        /\ pc = "done" => \A n \in 1..Len(df) : df[n]["id"] = ClaimId(n)

====
